---------------------------- MODULE Spec2Model ----------------------------
(***************************************************************************)
(* A model of the cartridge selection bot (src/main.py): the in-memory     *)
(* catalog index built from spreadsheet records, and the per-user dialogue *)
(* state machine that queries it.                                          *)
(*                                                                         *)
(* Strings are sequences of one-character strings, so that str.split,      *)
(* str.strip, str.upper, startswith and the substring test `in` are        *)
(* computed character by character as Python computes them.                *)
(***************************************************************************)
EXTENDS Integers, Sequences, FiniteSets, TLC

\* ------------------------------------------------------------------------
\* Bounds of the model.

\* Longest spreadsheet (number of records) a load may fetch.
MaxRows == 2

\* ------------------------------------------------------------------------
\* Python string operations.

RECURSIVE DropWhileSpace(_)
\* str.lstrip(): drop the leading whitespace.
DropWhileSpace(s) ==
    IF s = <<>> THEN <<>>
    ELSE IF Head(s) = " " THEN DropWhileSpace(Tail(s)) ELSE s

RECURSIVE DropTrailingSpace(_)
\* str.rstrip(): drop the trailing whitespace.
DropTrailingSpace(s) ==
    IF s = <<>> THEN <<>>
    ELSE IF s[Len(s)] = " " THEN DropTrailingSpace(SubSeq(s, 1, Len(s) - 1)) ELSE s

\* str.strip()
Strip(s) == DropTrailingSpace(DropWhileSpace(s))

\* str.upper() on one character.
UpperChar(c) ==
    CASE c = "a" -> "A" [] c = "b" -> "B" [] c = "c" -> "C" [] c = "e" -> "E"
      [] c = "i" -> "I" [] c = "k" -> "K" [] c = "s" -> "S" [] c = "t" -> "T"
      [] c = "x" -> "X" [] c = "z" -> "Z"
      [] OTHER -> c

\* str.lower() on one character.
LowerChar(c) ==
    CASE c = "A" -> "a" [] c = "B" -> "b" [] c = "C" -> "c" [] c = "E" -> "e"
      [] c = "I" -> "i" [] c = "K" -> "k" [] c = "S" -> "s" [] c = "T" -> "t"
      [] c = "X" -> "x" [] c = "Z" -> "z"
      [] OTHER -> c

\* str.upper()
Upper(s) == [i \in 1..Len(s) |-> UpperChar(s[i])]

\* str.lower()
Lower(s) == [i \in 1..Len(s) |-> LowerChar(s[i])]

RECURSIVE TakeUntil(_, _)
\* The prefix of s before the first occurrence of character c (all of s when
\* c does not occur): s.split(c)[0] for a one-character separator.
TakeUntil(s, c) ==
    IF s = <<>> THEN <<>>
    ELSE IF Head(s) = c THEN <<>> ELSE <<Head(s)>> \o TakeUntil(Tail(s), c)

\* s.split(".")[0]
SplitDot0(s) == TakeUntil(s, ".")

\* text.split()[0]: the first whitespace-delimited token. Python raises
\* IndexError when there is none; FirstTokenRaises tells when.
FirstToken(s) == TakeUntil(DropWhileSpace(s), " ")

FirstTokenRaises(s) == DropWhileSpace(s) = <<>>

\* prefix.startswith test: s.startswith(p)
StartsWith(s, p) == Len(s) >= Len(p) /\ SubSeq(s, 1, Len(p)) = p

\* The Python test `p in s` on strings: p is a contiguous substring of s.
IsSubstring(p, s) ==
    \E i \in 0..(Len(s) - Len(p)) : SubSeq(s, i + 1, i + Len(p)) = p

\* The Python test `x in lst` on lists.
InList(x, lst) == \E i \in 1..Len(lst) : lst[i] = x

\* ------------------------------------------------------------------------
\* Spreadsheet cells and records.
\*
\* A record is a dict; each of its values is a cell. k = "absent": the key
\* is not in the dict (row.get(key) is None, row.get(key, "") is "");
\* k = "str": a string; k = "num": a number, v being its str() form.

AbsentCell == [k |-> "absent", v |-> <<>>]

StrCell(s) == [k |-> "str", v |-> s]

NumCell(s) == [k |-> "num", v |-> s]

\* row.get(key) is None
IsNone(cell) == cell.k = "absent"

\* str(row.get(key, "")): the default "" stands for a missing key.
StrOf(cell) == cell.v

\* Python truthiness of a value that is not None: a number is falsy when it
\* is zero, a string when it is empty.
Truthy(cell) ==
    CASE cell.k = "absent" -> FALSE
      [] cell.k = "str" -> cell.v # <<>>
      [] OTHER -> cell.v \notin {<<"0">>, <<"0", ".", "0">>}

\* normalize_name(name) raises AttributeError when `name or ""` is not a
\* string: a truthy number has no .strip().
NormalizeNameRaises(cell) == cell.k = "num" /\ Truthy(cell)

\* normalize_name(name): (name or "").strip().upper()
normalize_name(cell) == IF Truthy(cell) THEN Upper(Strip(cell.v)) ELSE <<>>

\* ------------------------------------------------------------------------
\* Insertion-ordered dicts (Python dict, defaultdict(list)): a sequence of
\* entries [k |-> key, v |-> list], in insertion order.

DictHas(d, key) == \E i \in 1..Len(d) : d[i].k = key

\* d.get(key, [])
DictGet(d, key) ==
    IF DictHas(d, key)
    THEN d[CHOOSE i \in 1..Len(d) : d[i].k = key].v
    ELSE <<>>

\* DictAppend putting x at the front of its bucket: a build that keeps the
\* rows of an article in reverse order.
DictAppendFront(d, key, x) ==
    IF DictHas(d, key)
    THEN [i \in 1..Len(d) |-> IF d[i].k = key
                              THEN [k |-> key, v |-> <<x>> \o d[i].v]
                              ELSE d[i]]
    ELSE Append(d, [k |-> key, v |-> <<x>>])

\* d[key].append(x) on a defaultdict(list): a missing key is created at the
\* end of the dict.
DictAppend(d, key, x) ==
    IF DictHas(d, key)
    THEN [i \in 1..Len(d) |-> IF d[i].k = key
                              THEN [k |-> key, v |-> Append(d[i].v, x)]
                              ELSE d[i]]
    ELSE Append(d, [k |-> key, v |-> <<x>>])

\* ------------------------------------------------------------------------
\* load_data_from_sheets: the index build.

\* `cart_art_raw not in (None, "")`
\* CartPresent that takes a blank cartridge article for an article.
CartPresentAlways(cell) == TRUE

CartPresent(cell) == ~IsNone(cell) /\ ~(cell.k = "str" /\ cell.v = <<>>)

\* The module-level state before the first load.
EmptyIndex ==
    [all_rows |-> <<>>, systems_by_article |-> <<>>,
     systems_by_name |-> <<>>, cartridges_by_article |-> <<>>, ok |-> TRUE]

\* Lines 226-228: register the article under the normalized name, once.
RegisterName(sbn, name_norm, sys_art) ==
    IF name_norm = <<>> THEN sbn
    ELSE IF InList(sys_art, DictGet(sbn, name_norm)) THEN sbn
    ELSE DictAppend(sbn, name_norm, sys_art)

\* One iteration of the loop of lines 213-233 on record i of st.all_rows.
\* The row is mutated in place (lines 222, 232), so all_rows and the buckets
\* hold the same, normalized row. A fault (normalize_name on a number) ends
\* the build with ok = FALSE and everything done so far kept.
LoadRow(st, i) ==
    LET row == st.all_rows[i] IN
    IF IsNone(row.art) \/ IsNone(row.name) THEN st
    ELSE
      LET sys_art == SplitDot0(StrOf(row.art))
          row1 == [row EXCEPT !.art = StrCell(sys_art)]
      IN
      IF NormalizeNameRaises(row.name)
      THEN [st EXCEPT !.all_rows[i] = row1, !.ok = FALSE]
      ELSE
        LET sys_name_norm == normalize_name(row.name)
            cart_art == SplitDot0(StrOf(row.cart))
            row2 == IF CartPresent(row.cart)
                    THEN [row1 EXCEPT !.cart = StrCell(cart_art)]
                    ELSE row1
        IN
        [all_rows |-> [st.all_rows EXCEPT ![i] = row2],
         systems_by_article |-> DictAppend(st.systems_by_article, sys_art, row2),
         systems_by_name |-> RegisterName(st.systems_by_name, sys_name_norm, sys_art),
         cartridges_by_article |->
            IF CartPresent(row.cart)
            THEN DictAppend(st.cartridges_by_article, cart_art, row2)
            ELSE st.cartridges_by_article,
         ok |-> TRUE]

RECURSIVE LoadLoop(_, _)
LoadLoop(st, i) ==
    IF i > Len(st.all_rows) \/ ~st.ok THEN st
    ELSE LoadLoop(LoadRow(st, i), i + 1)

\* Lines 208-233 on the fetched records: the globals are rebound to the new
\* records and to three empty dicts, and then filled row by row.
LoadData(records) ==
    LoadLoop([all_rows |-> records, systems_by_article |-> <<>>,
              systems_by_name |-> <<>>, cartridges_by_article |-> <<>>,
              ok |-> TRUE], 1)


\* ------------------------------------------------------------------------
\* Language codes, callback tokens and dialogue steps.

LANG_RU == <<"r", "u">>

LANG_EN == <<"e", "n">>

LANG_KK == <<"k", "k">>

LANG_UZ == <<"u", "z">>

DEFAULT_LANG == LANG_RU

\* The list [LANG_RU, LANG_EN, LANG_KK, LANG_UZ] of line 353.
ValidLangs == {LANG_RU, LANG_EN, LANG_KK, LANG_UZ}

D_lang_prefix == <<"l", "a", "n", "g", "_">>

D_menu_regular == <<"m", "e", "n", "u", "_", "r", "e", "g", "u", "l", "a", "r">>

D_menu_pro == <<"m", "e", "n", "u", "_", "p", "r", "o">>

D_menu_lang == <<"m", "e", "n", "u", "_", "l", "a", "n", "g">>

D_back_main == <<"b", "a", "c", "k", "_", "m", "a", "i", "n">>

D_reg_sys_name == <<"r", "e", "g", "_", "s", "y", "s", "_", "n", "a", "m", "e">>

D_reg_cart_art == <<"r", "e", "g", "_", "c", "a", "r", "t", "_", "a", "r", "t">>

D_reg_cart_name == <<"r", "e", "g", "_", "c", "a", "r", "t", "_", "n", "a", "m", "e">>

D_sys_prefix == <<"s", "y", "s", "_">>

D_sysfromcart_prefix == <<"s", "y", "s", "f", "r", "o", "m", "c", "a", "r", "t", "_">>

\* The spec's names of the dialogue steps, as the strings the code stores.
NoStep == ""

ChooseLanguage == "choose_language"

MainMenu == "main_menu"

RegularMenu == "regular_menu"

AwaitProArticle == "await_pro_article"

AwaitSystemName == "await_sys_name"

AwaitCartridgeArticle == "await_cart_article"

AwaitCartridgeName == "await_cart_name"

ChooseSystemForName == "await_choose_system_for_name"

ChooseSystemForCartridge == "await_choose_system_for_cart"

\* ------------------------------------------------------------------------
\* Per-user session (user_states). An unset key is the empty value: "" for
\* the step (state.get("step", "")), <<>> for the language.

NoSession == [step |-> NoStep, lang |-> <<>>]

\* get_user_lang
get_user_lang(sess) == IF sess.lang = <<>> THEN DEFAULT_LANG ELSE sess.lang

\* get_user_step
get_user_step(sess) == sess.step

\* set_user_step
set_user_step(sess, step) == [sess EXCEPT !.step = step]

\* set_user_lang that stores nothing.
set_user_lang_dropped(sess, lang) == sess

\* set_user_lang
set_user_lang(sess, lang) == [sess EXCEPT !.lang = lang]

\* ------------------------------------------------------------------------
\* Outbound messages. A message is its template key, the language of the
\* template table it is rendered from, and its keyboard (opts); the system
\* info message also carries its lines.

Opt(label, name, art, data) ==
    [label |-> label, name |-> name, art |-> art, data |-> data]

Msg(key, lang, opts) ==
    [key |-> key, lang |-> lang, lines |-> <<>>, opts |-> opts]

\* lang_keyboard
lang_keyboard ==
    << Opt("LANG_LABELS", <<>>, LANG_RU, D_lang_prefix \o LANG_RU),
       Opt("LANG_LABELS", <<>>, LANG_EN, D_lang_prefix \o LANG_EN),
       Opt("LANG_LABELS", <<>>, LANG_KK, D_lang_prefix \o LANG_KK),
       Opt("LANG_LABELS", <<>>, LANG_UZ, D_lang_prefix \o LANG_UZ) >>

\* main_menu_keyboard
main_menu_keyboard ==
    << Opt("btn_regular", <<>>, <<>>, D_menu_regular),
       Opt("btn_pro", <<>>, <<>>, D_menu_pro),
       Opt("btn_lang", <<>>, <<>>, D_menu_lang) >>

\* regular_menu_keyboard
regular_menu_keyboard ==
    << Opt("btn_reg_sys_name", <<>>, <<>>, D_reg_sys_name),
       Opt("btn_reg_cart_art", <<>>, <<>>, D_reg_cart_art),
       Opt("btn_reg_cart_name", <<>>, <<>>, D_reg_cart_name),
       Opt("back_to_menu", <<>>, <<>>, D_back_main) >>

BackOpt == Opt("back_to_menu", <<>>, <<>>, D_back_main)

MainMenuMsg(lang) == Msg("main_menu", lang, main_menu_keyboard)

\* ------------------------------------------------------------------------
\* split_kits_and_items and send_system_info.

\* The keyword list of line 248.
KitWords ==
    { <<"ru_k", "ru_o", "ru_m", "ru_p", "ru_l", "ru_e", "ru_k", "ru_t">>,
      <<"ru_n", "ru_a", "ru_b", "ru_o", "ru_r">>,
      <<"k", "i", "t">>,
      <<"s", "e", "t">> }

IsKit(r) == \E w \in KitWords : IsSubstring(w, Lower(StrOf(r.cname)))

\* split_kits_and_items that puts every row among the singles as well.
split_kits_keep_all_singles(rows) ==
    [kits |-> SelectSeq(rows, IsKit), singles |-> rows]

\* split_kits_and_items: (kits, singles)
split_kits_and_items(rows) ==
    [kits |-> SelectSeq(rows, IsKit),
     singles |-> SelectSeq(rows, LAMBDA r : ~IsKit(r))]

\* get_system_name_from_rows
get_system_name_from_rows(rows) ==
    IF rows = <<>> THEN <<>> ELSE Strip(StrOf(rows[1].name))

Line(t, name, art, url) == [t |-> t, name |-> name, art |-> art, url |-> url]

\* The item line of a row (lines 663-667).
ItemLine(r) ==
    Line("item_line", Strip(StrOf(r.cname)), SplitDot0(StrOf(r.cart)),
         Strip(StrOf(r.url)))

ItemLines(rows) == [i \in 1..Len(rows) |-> ItemLine(rows[i])]

\* SystemInfoLines that writes the items header also when there is no
\* single item.
SystemInfoLinesItemsAlways(sys_article, rows) ==
    LET ks == split_kits_and_items(rows)
        header == << Line("system_header", get_system_name_from_rows(rows),
                          sys_article, <<>>),
                     Line("blank", <<>>, <<>>, <<>>) >>
    IN
    IF ks.kits # <<>>
    THEN header \o << Line("kits_header", <<>>, <<>>, <<>>) >>
                \o ItemLines(ks.kits)
                \o << Line("blank", <<>>, <<>>, <<>>) >>
                \o << Line("items_header", <<>>, <<>>, <<>>) >>
                \o ItemLines(ks.singles)
    ELSE header \o << Line("no_kits", <<>>, <<>>, <<>>) >>
                \o ItemLines(ks.singles)

\* The lines of send_system_info (lines 658-685).
SystemInfoLines(sys_article, rows) ==
    LET ks == split_kits_and_items(rows)
        header == << Line("system_header", get_system_name_from_rows(rows),
                          sys_article, <<>>),
                     Line("blank", <<>>, <<>>, <<>>) >>
    IN
    IF ks.kits # <<>>
    THEN header \o << Line("kits_header", <<>>, <<>>, <<>>) >>
                \o ItemLines(ks.kits)
                \o << Line("blank", <<>>, <<>>, <<>>) >>
                \o (IF ks.singles # <<>>
                    THEN << Line("items_header", <<>>, <<>>, <<>>) >>
                         \o ItemLines(ks.singles)
                    ELSE <<>>)
    ELSE header \o << Line("no_kits", <<>>, <<>>, <<>>) >>
                \o ItemLines(ks.singles)

\* The message send_system_info sends.
SystemInfoMsg(lang, sys_article, rows) ==
    [key |-> "system_info", lang |-> lang,
     lines |-> SystemInfoLines(sys_article, rows), opts |-> <<>>]

\* ------------------------------------------------------------------------
\* The lookups, as the handlers compute them.

\* AppendNew without the membership test: a union that keeps duplicates.
AppendAll(acc, arts) == acc \o arts

RECURSIVE AppendNew(_, _)
\* for a in arts: if a not in acc: acc.append(a)
AppendNew(acc, arts) ==
    IF arts = <<>> THEN acc
    ELSE AppendNew(IF InList(Head(arts), acc) THEN acc ELSE Append(acc, Head(arts)),
                   Tail(arts))

RECURSIVE SubstringCandidates(_, _, _)
\* Lines 470-474: the loop over systems_by_name.items(), in dict order.
SubstringCandidates(sbn, sys_name_norm, acc) ==
    IF sbn = <<>> THEN acc
    ELSE SubstringCandidates(
            Tail(sbn), sys_name_norm,
            IF IsSubstring(sys_name_norm, Head(sbn).k)
            THEN AppendNew(acc, Head(sbn).v)
            ELSE acc)

\* NameCandidates without the precedence of the exact match: the articles
\* of every name that contains the input.
NameCandidatesByContainment(sbn, text) ==
    SubstringCandidates(sbn, Upper(Strip(text)), <<>>)

\* Lines 466-474: candidate_articles for the typed system name `text`.
NameCandidates(sbn, text) ==
    LET sys_name_norm == Upper(Strip(text))
        exact == DictGet(sbn, sys_name_norm)
    IN IF exact # <<>> THEN exact
       ELSE SubstringCandidates(sbn, sys_name_norm, <<>>)

\* NameLookupLeaves for a lookup by systems_by_name[sys_name_norm]: the
\* defaultdict creates the missing key, and the fallback fills its list.
NameLookupLeavesIndexed(sbn, text) ==
    LET sys_name_norm == Upper(Strip(text)) IN
    IF DictHas(sbn, sys_name_norm) THEN sbn
    ELSE Append(sbn, [k |-> sys_name_norm,
                      v |-> SubstringCandidates(sbn, sys_name_norm, <<>>)])

\* systems_by_name after lines 466-474. candidate_articles is the stored
\* list of the name when get() finds the key: the loop of lines 470-474 runs
\* only if that list is empty, and what it appends is then appended in the
\* index. Otherwise candidate_articles is the new list given as default, and
\* get() creates no key.
NameLookupLeaves(sbn, text) ==
    LET sys_name_norm == Upper(Strip(text)) IN
    IF DictHas(sbn, sys_name_norm) /\ DictGet(sbn, sys_name_norm) = <<>>
    THEN [i \in 1..Len(sbn) |->
            IF sbn[i].k = sys_name_norm
            THEN [k |-> sys_name_norm,
                  v |-> SubstringCandidates(sbn, sys_name_norm, <<>>)]
            ELSE sbn[i]]
    ELSE sbn

RECURSIVE DistinctSystemArticles(_, _)
\* Lines 524-528 (and 585-589): the system articles of the rows of a
\* cartridge, without the empty one, each once, in first-seen order.
DistinctSystemArticles(rows, acc) ==
    IF rows = <<>> THEN acc
    ELSE LET a == SplitDot0(StrOf(Head(rows).art)) IN
         DistinctSystemArticles(
            Tail(rows),
            IF a # <<>> /\ ~InList(a, acc) THEN Append(acc, a) ELSE acc)

\* Lines 565-572: the set of cartridge articles whose normalized name
\* contains the normalized input.
MatchedCartArticles(rows, text) ==
    LET cart_name_norm == Upper(Strip(text)) IN
    { SplitDot0(StrOf(rows[i].cart)) :
        i \in { j \in 1..Len(rows) :
                  /\ SplitDot0(StrOf(rows[j].cart)) # <<>>
                  /\ IsSubstring(cart_name_norm, Upper(Strip(StrOf(rows[j].cname)))) } }

\* ------------------------------------------------------------------------
\* A handler run is the list of its effects in program order: messages
\* sent, session writes, and a computation fault where the code raises.

SendOp(m) == [op |-> "send", msg |-> m, step |-> "", lang |-> <<>>]

NoMsg == Msg("", <<>>, <<>>)

StepOp(step) == [op |-> "step", msg |-> NoMsg, step |-> step, lang |-> <<>>]

LangOp(lang) == [op |-> "lang", msg |-> NoMsg, step |-> "", lang |-> lang]

RaiseOp == [op |-> "raise", msg |-> NoMsg, step |-> "", lang |-> <<>>]

\* Lines 496-511 and 542-561: the disambiguation keyboard, one button per
\* system article, then the back button.
SystemButtons(sba, arts, prefix, suffix) ==
    [i \in 1..Len(arts) |->
        Opt("system", get_system_name_from_rows(DictGet(sba, arts[i])), arts[i],
            prefix \o arts[i] \o suffix)] \o << BackOpt >>

\* BackToMainMenu that sends the menu and leaves the step as it is.
MainMenuWithoutStep(lang) == << SendOp(MainMenuMsg(lang)) >>

\* The tail shared by every answer: set_user_step("main_menu") and the menu.
BackToMainMenu(lang) == << StepOp(MainMenu), SendOp(MainMenuMsg(lang)) >>

\* CartridgeSystemsPlan with the option tokens of the name lookup, which
\* carry the system article only.
CartridgeSystemsPlanSysToken(idx, lang, cart_art, rows) ==
    LET sys_articles == DistinctSystemArticles(rows, <<>>) IN
    IF Len(sys_articles) = 1
    THEN << SendOp(SystemInfoMsg(lang, sys_articles[1],
                                 DictGet(idx.systems_by_article, sys_articles[1]))) >>
         \o BackToMainMenu(lang)
    ELSE << StepOp(ChooseSystemForCartridge),
            SendOp(Msg("choose_system_for_cart", lang,
                       SystemButtons(idx.systems_by_article, sys_articles,
                                     D_sys_prefix, <<>>))) >>

\* Lines 524-561: the systems of a cartridge article whose rows are `rows`.
CartridgeSystemsPlan(idx, lang, cart_art, rows) ==
    LET sys_articles == DistinctSystemArticles(rows, <<>>) IN
    IF Len(sys_articles) = 1
    THEN << SendOp(SystemInfoMsg(lang, sys_articles[1],
                                 DictGet(idx.systems_by_article, sys_articles[1]))) >>
         \o BackToMainMenu(lang)
    ELSE << StepOp(ChooseSystemForCartridge),
            SendOp(Msg("choose_system_for_cart", lang,
                       SystemButtons(idx.systems_by_article, sys_articles,
                                     D_sysfromcart_prefix, <<"_">> \o cart_art))) >>

NotFoundPlan(key, lang) == << SendOp(Msg(key, lang, <<>>)) >> \o BackToMainMenu(lang)

\* ProArticlePlan looking up the whole text instead of its first token.
ProArticlePlanWholeText(idx, lang, text) ==
    LET rows == DictGet(idx.systems_by_article, text)
    IN << IF rows = <<>>
          THEN SendOp(Msg("no_systems_found", lang, <<>>))
          ELSE SendOp(SystemInfoMsg(lang, text, rows)) >>
       \o BackToMainMenu(lang)

\* Lines 450-463
ProArticlePlan(idx, lang, text) ==
    IF FirstTokenRaises(text) THEN << RaiseOp >>
    ELSE LET sys_article == FirstToken(text)
             rows == DictGet(idx.systems_by_article, sys_article)
         IN << IF rows = <<>>
               THEN SendOp(Msg("no_systems_found", lang, <<>>))
               ELSE SendOp(SystemInfoMsg(lang, sys_article, rows)) >>
            \o BackToMainMenu(lang)

\* SystemNamePlan answering with the first candidate when there are several.
SystemNamePlanFirstOfMany(idx, lang, text) ==
    LET candidate_articles == NameCandidates(idx.systems_by_name, text) IN
    IF candidate_articles = <<>> THEN NotFoundPlan("no_systems_found", lang)
    ELSE << SendOp(SystemInfoMsg(lang, candidate_articles[1],
                      DictGet(idx.systems_by_article, candidate_articles[1]))) >>
         \o BackToMainMenu(lang)

\* Lines 465-511
SystemNamePlan(idx, lang, text) ==
    LET candidate_articles == NameCandidates(idx.systems_by_name, text) IN
    IF candidate_articles = <<>> THEN NotFoundPlan("no_systems_found", lang)
    ELSE IF Len(candidate_articles) = 1
    THEN << SendOp(SystemInfoMsg(lang, candidate_articles[1],
                      DictGet(idx.systems_by_article, candidate_articles[1]))) >>
         \o BackToMainMenu(lang)
    ELSE << StepOp(ChooseSystemForName),
            SendOp(Msg("choose_system", lang,
                       SystemButtons(idx.systems_by_article, candidate_articles,
                                     D_sys_prefix, <<>>))) >>

\* Lines 513-561
CartridgeArticlePlan(idx, lang, text) ==
    IF FirstTokenRaises(text) THEN << RaiseOp >>
    ELSE LET cart_art == FirstToken(text)
             rows == DictGet(idx.cartridges_by_article, cart_art)
         IN IF rows = <<>> THEN NotFoundPlan("no_cartridges_found", lang)
            ELSE CartridgeSystemsPlan(idx, lang, cart_art, rows)

\* CartridgeNamePlan going on with one of the matched cartridge articles
\* when there are several.
CartridgeNamePlanAnyMatch(idx, lang, text) ==
    LET matched_cart_art == MatchedCartArticles(idx.all_rows, text) IN
    IF matched_cart_art = {} THEN NotFoundPlan("no_cartridges_found", lang)
    ELSE LET cart_art == CHOOSE c \in matched_cart_art : TRUE IN
         CartridgeSystemsPlan(idx, lang, cart_art,
                              DictGet(idx.cartridges_by_article, cart_art))

\* Lines 563-630
CartridgeNamePlan(idx, lang, text) ==
    LET matched_cart_art == MatchedCartArticles(idx.all_rows, text) IN
    IF matched_cart_art = {} THEN NotFoundPlan("no_cartridges_found", lang)
    ELSE IF Cardinality(matched_cart_art) = 1
    THEN LET cart_art == CHOOSE c \in matched_cart_art : TRUE IN
         CartridgeSystemsPlan(idx, lang, cart_art,
                              DictGet(idx.cartridges_by_article, cart_art))
    ELSE NotFoundPlan("no_cartridges_found", lang)

\* handle_text, lines 444-639: the effects of a text in step `step`. `text`
\* is the message text, already stripped (line 440).
TextPlan(idx, lang, step, text) ==
    IF step = NoStep
    THEN << StepOp(ChooseLanguage), SendOp(Msg("welcome", lang, lang_keyboard)) >>
    ELSE IF step = AwaitProArticle THEN ProArticlePlan(idx, lang, text)
    ELSE IF step = AwaitSystemName THEN SystemNamePlan(idx, lang, text)
    ELSE IF step = AwaitCartridgeArticle THEN CartridgeArticlePlan(idx, lang, text)
    ELSE IF step = AwaitCartridgeName THEN CartridgeNamePlan(idx, lang, text)
    ELSE IF step \in {MainMenu, RegularMenu, ChooseLanguage} THEN BackToMainMenu(lang)
    ELSE << SendOp(Msg("error", lang, <<>>)) >>

\* Lines 402-428: the answer to a system selection.
SystemSelectedPlan(idx, lang, sys_article) ==
    << SendOp(SystemInfoMsg(lang, sys_article,
                            DictGet(idx.systems_by_article, sys_article))) >>
    \o BackToMainMenu(lang)

\* handle_callback, lines 350-428: the effects of the selection token `data`.
\* No branch matches an unrecognized token: the handler does nothing.
CallbackPlan(idx, lang, data) ==
    IF StartsWith(data, D_lang_prefix)
    THEN LET lang_code == SubSeq(data, Len(D_lang_prefix) + 1, Len(data)) IN
         IF lang_code \in ValidLangs
         THEN << LangOp(lang_code), StepOp(MainMenu), SendOp(MainMenuMsg(lang_code)) >>
         ELSE BackToMainMenu(lang)
    ELSE IF data = D_menu_regular
    THEN << StepOp(RegularMenu),
            SendOp(Msg("ask_regular_what_known", lang, regular_menu_keyboard)) >>
    ELSE IF data = D_menu_pro
    THEN << StepOp(AwaitProArticle), SendOp(Msg("ask_pro_art", lang, <<>>)) >>
    ELSE IF data = D_menu_lang
    THEN << StepOp(ChooseLanguage), SendOp(Msg("welcome", lang, lang_keyboard)) >>
    ELSE IF data = D_back_main THEN BackToMainMenu(lang)
    ELSE IF data = D_reg_sys_name
    THEN << StepOp(AwaitSystemName), SendOp(Msg("ask_sys_name", lang, <<>>)) >>
    ELSE IF data = D_reg_cart_art
    THEN << StepOp(AwaitCartridgeArticle), SendOp(Msg("ask_cart_art", lang, <<>>)) >>
    ELSE IF data = D_reg_cart_name
    THEN << StepOp(AwaitCartridgeName), SendOp(Msg("ask_cart_name", lang, <<>>)) >>
    ELSE IF StartsWith(data, D_sys_prefix)
    THEN SystemSelectedPlan(idx, lang, SubSeq(data, Len(D_sys_prefix) + 1, Len(data)))
    ELSE IF StartsWith(data, D_sysfromcart_prefix)
    THEN LET rest == SubSeq(data, Len(D_sysfromcart_prefix) + 1, Len(data)) IN
         IF ~InList("_", rest) THEN << RaiseOp >>
         ELSE SystemSelectedPlan(idx, lang, TakeUntil(rest, "_"))
    ELSE <<>>

\* ------------------------------------------------------------------------
\* Running a handler: its effects happen in order until a send raises (the
\* f-th send of the run; f = 0: none does) or the code itself raises.

RECURSIVE RunOps(_, _, _)
RunOps(ops, st, f) ==
    IF ops = <<>> \/ st.failed THEN st
    ELSE LET o == Head(ops) IN
         RunOps(Tail(ops),
                CASE o.op = "send" ->
                        IF st.sent + 1 = f
                        THEN [st EXCEPT !.failed = TRUE]
                        ELSE [st EXCEPT !.out = Append(@, o.msg), !.sent = @ + 1]
                  [] o.op = "step" -> [st EXCEPT !.sess = set_user_step(@, o.step)]
                  [] o.op = "lang" -> [st EXCEPT !.sess = set_user_lang(@, o.lang)]
                  [] OTHER -> [st EXCEPT !.failed = TRUE],
                f)

NumSends(ops) == Cardinality({i \in 1..Len(ops) : ops[i].op = "send"})

\* The try body and the except clause of handle_callback (lines 350-432) and
\* of handle_text (lines 444-643): on a fault the session writes already
\* made stay, and t["error"] is sent, unless that send fails too (errLost).
RunHandler(ops, sess, f, errLost) ==
    LET st == RunOps(ops, [sess |-> sess, out |-> <<>>, sent |-> 0, failed |-> FALSE], f)
    IN IF st.failed
       THEN [sess |-> st.sess, status |-> "fault",
             out |-> IF errLost THEN st.out
                     ELSE Append(st.out, Msg("error", get_user_lang(st.sess), <<>>))]
       ELSE [sess |-> st.sess, status |-> "ok", out |-> st.out]

\* ------------------------------------------------------------------------
\* Inputs.

Users == {"u1", "u2"}

\* The users whose events the dialogue specification takes.
ActiveUsers == {"u1"}

Row(art, name, cart, cname) ==
    [art |-> art, name |-> name, cart |-> cart, cname |-> cname,
     url |-> StrCell(<<"u">>)]

\* Spreadsheet records. Numeric cells arrive as numbers ("1.0", "7.0");
\* RowNumName has a numeric system name; RowNoName comes from a sheet with
\* no system name column; RowNoArt has an empty system article cell.
RowA == Row(NumCell(<<"1", ".", "0">>), StrCell(<<"A", "b">>),
            StrCell(<<"7">>), StrCell(<<"c", "b">>))

RowB == Row(StrCell(<<"2">>), StrCell(<<" ", "a", "b">>),
            NumCell(<<"7", ".", "0">>), StrCell(<<"c", "b">>))

RowC == Row(StrCell(<<"1">>), StrCell(<<"a", "b", "c">>),
            StrCell(<<"8">>), StrCell(<<"c", "b", " ", "K", "i", "t">>))

RowNumName == Row(StrCell(<<"2">>), NumCell(<<"5">>),
                  StrCell(<<"8">>), StrCell(<<"c", "b">>))

RowNoName == Row(StrCell(<<"1">>), AbsentCell,
                 NumCell(<<"8", ".", "0">>), StrCell(<<"c", "b">>))

RowNoArt == Row(StrCell(<<>>), StrCell(<<"A", "b">>),
                StrCell(<<"7">>), StrCell(<<"c", "b">>))

RowPool == {RowA, RowB, RowC, RowNumName, RowNoName, RowNoArt}

\* get_all_records makes every record from the same header row: the records
\* of one sheet have the same keys.
UniformKeys(records) ==
    \A i, j \in 1..Len(records) :
        /\ IsNone(records[i].art) = IsNone(records[j].art)
        /\ IsNone(records[i].name) = IsNone(records[j].name)
        /\ IsNone(records[i].cart) = IsNone(records[j].cart)

SeqsUpTo(S, n) == UNION {[1..m -> S] : m \in 0..n}

\* What sheet.get_all_records() may return.
Sheets == {r \in SeqsUpTo(RowPool, MaxRows) : UniformKeys(r)}

\* Message texts, as line 440 leaves them (stripped, not empty).
Texts ==
    { <<"A", "b">>, <<"a">>, <<"z", "z">>, <<"7">>, <<"1">>, <<"c", "b">> }

\* Selection tokens: the buttons the bot renders, a language code it does
\* not know, a malformed system token and an unknown token.
Tokens ==
    { D_lang_prefix \o LANG_EN, D_lang_prefix \o <<"x", "x">>,
      D_menu_regular, D_menu_pro, D_menu_lang, D_back_main,
      D_reg_sys_name, D_reg_cart_art, D_reg_cart_name,
      D_sys_prefix \o <<"1">>, D_sys_prefix \o <<"9">>,
      D_sysfromcart_prefix \o <<"1", "_", "7">>,
      D_sysfromcart_prefix \o <<"1">>,
      <<"z", "z">> }

\* ------------------------------------------------------------------------
\* State.

VARIABLES
    all_rows,               \* all_rows (line 185)
    systems_by_article,     \* systems_by_article (line 186)
    systems_by_name,        \* systems_by_name (line 187)
    cartridges_by_article,  \* cartridges_by_article (line 188)
    user_states,            \* user_states (line 181)
    phase,                  \* "boot", "serving" or "failed" (lifespan)
    turn                    \* the last event handled and what it emitted

vars == << all_rows, systems_by_article, systems_by_name,
           cartridges_by_article, user_states, phase, turn >>

index == << all_rows, systems_by_article, systems_by_name, cartridges_by_article >>

\* The index the handlers read.
Idx ==
    [all_rows |-> all_rows, systems_by_article |-> systems_by_article,
     systems_by_name |-> systems_by_name,
     cartridges_by_article |-> cartridges_by_article]

\* A turn: the event handled last (its kind, user, text or token, and for a
\* load the records fetched), the user's session before it, how it ended
\* and the messages it emitted.
Turn(kind, user, input, records, pre, status, out) ==
    [kind |-> kind, user |-> user, input |-> input, records |-> records,
     pre |-> pre, status |-> status, out |-> out]

\* The module-level assignments of lines 181-188.
Init ==
    /\ all_rows = <<>>
    /\ systems_by_article = <<>>
    /\ systems_by_name = <<>>
    /\ cartridges_by_article = <<>>
    /\ user_states = [u \in Users |-> NoSession]
    /\ phase = "boot"
    /\ turn = Turn("none", "", <<>>, <<>>, NoSession, "ok", <<>>)

\* The globals after load_data_from_sheets ran on `records` (lines 208-233).
SetIndex(res) ==
    /\ all_rows' = res.all_rows
    /\ systems_by_article' = res.systems_by_article
    /\ systems_by_name' = res.systems_by_name
    /\ cartridges_by_article' = res.cartridges_by_article

\* A run of load_data_from_sheets (lines 195-240): the records fetched and
\* the globals it leaves (res). The fetch of lines 201-206 may raise before
\* anything is assigned (FetchFailed); the build may raise half way
\* (res.ok = FALSE).
LoadOf(records) == [records |-> records, fetched |-> TRUE, res |-> LoadData(records)]

FetchFailed == [records |-> <<>>, fetched |-> FALSE, res |-> EmptyIndex]

\* The loads of every sheet, and the failed fetch.
Loads == {LoadOf(records) : records \in Sheets}

LoadOutcome(ld) ==
    IF ~ld.fetched THEN "fetch_failed"
    ELSE IF ld.res.ok THEN "ok" ELSE "build_failed"

\* The effect of the load on the globals.
Load(ld) == IF ld.fetched THEN SetIndex(ld.res) ELSE UNCHANGED index

\* lifespan (lines 708-717): the first load; the application serves only
\* when it succeeded.
Startup(ld) ==
    /\ phase = "boot"
    /\ Load(ld)
    /\ phase' = IF LoadOutcome(ld) = "ok" THEN "serving" ELSE "failed"
    /\ turn' = Turn("startup", "", <<>>, ld.records, NoSession, LoadOutcome(ld), <<>>)
    /\ UNCHANGED user_states

\* Start that keeps the language of the session.
StartKeepsLanguage(u, sendFails) ==
    /\ phase = "serving"
    /\ user_states' = [user_states EXCEPT ![u] = set_user_step(@, ChooseLanguage)]
    /\ turn' = Turn("start", u, <<>>, <<>>, user_states[u],
                    IF sendFails THEN "fault" ELSE "ok",
                    IF sendFails THEN <<>>
                    ELSE << Msg("welcome", DEFAULT_LANG, lang_keyboard) >>)
    /\ UNCHANGED << index, phase >>

\* start (lines 320-326). The send is not in a try: when it fails the
\* session writes stay and nothing is emitted.
Start(u, sendFails) ==
    /\ phase = "serving"
    /\ user_states' = [user_states EXCEPT
                          ![u] = set_user_lang(set_user_step(@, ChooseLanguage),
                                               DEFAULT_LANG)]
    /\ turn' = Turn("start", u, <<>>, <<>>, user_states[u],
                    IF sendFails THEN "fault" ELSE "ok",
                    IF sendFails THEN <<>>
                    ELSE << Msg("welcome", DEFAULT_LANG, lang_keyboard) >>)
    /\ UNCHANGED << index, phase >>

\* The messages of reload_data (lines 331-338): f = 1: the confirmation
\* fails to send; errLost: so does "Error reloading data.".
ReloadOut(outcome, lang, f, errLost) ==
    IF outcome = "ok" /\ f = 0 THEN << Msg("data_reloaded", lang, <<>>) >>
    ELSE IF errLost THEN <<>>
    ELSE << Msg("Error reloading data.", <<>>, <<>>) >>

\* reload_data (lines 329-338)
Reload(u, ld, f, errLost) ==
    /\ phase = "serving"
    /\ f = 1 => LoadOutcome(ld) = "ok"
    /\ errLost => (f = 1 \/ LoadOutcome(ld) # "ok")
    /\ Load(ld)
    /\ turn' = Turn("reload", u, <<>>, ld.records, user_states[u], LoadOutcome(ld),
                    ReloadOut(LoadOutcome(ld), get_user_lang(user_states[u]),
                              f, errLost))
    /\ UNCHANGED << user_states, phase >>

\* handle_callback (lines 341-432). answerFails: query.answer() of line 343
\* raises, outside the try: nothing else happens.
HandleCallback(u, data, answerFails, f, errLost) ==
    LET sess == user_states[u]
        ops == CallbackPlan(Idx, get_user_lang(sess), data)
        res == RunHandler(ops, sess, f, errLost)
    IN
    /\ phase = "serving"
    /\ answerFails => (f = 0 /\ ~errLost)
    /\ f <= NumSends(ops)
    /\ errLost => res.status = "fault"
    /\ user_states' = IF answerFails THEN user_states
                      ELSE [user_states EXCEPT ![u] = res.sess]
    /\ turn' = IF answerFails
               THEN Turn("callback", u, data, <<>>, sess, "answer_failed", <<>>)
               ELSE Turn("callback", u, data, <<>>, sess, res.status, res.out)
    /\ UNCHANGED << index, phase >>

\* HandleText writing the session of every user.
HandleTextAllSessions(u, text, f, errLost) ==
    LET sess == user_states[u]
        ops == TextPlan(Idx, get_user_lang(sess), get_user_step(sess), text)
        res == RunHandler(ops, sess, f, errLost)
    IN
    /\ phase = "serving"
    /\ f <= NumSends(ops)
    /\ errLost => res.status = "fault"
    /\ user_states' = [v \in Users |-> res.sess]
    /\ turn' = Turn("text", u, text, <<>>, sess, res.status, res.out)
    /\ systems_by_name' = IF get_user_step(sess) = AwaitSystemName
                          THEN NameLookupLeaves(systems_by_name, text)
                          ELSE systems_by_name
    /\ UNCHANGED << all_rows, systems_by_article, cartridges_by_article, phase >>

\* handle_text (lines 435-643). The handler reads the index with get();
\* the one list it appends to is candidate_articles of the name lookup.
HandleText(u, text, f, errLost) ==
    LET sess == user_states[u]
        ops == TextPlan(Idx, get_user_lang(sess), get_user_step(sess), text)
        res == RunHandler(ops, sess, f, errLost)
    IN
    /\ phase = "serving"
    /\ f <= NumSends(ops)
    /\ errLost => res.status = "fault"
    /\ user_states' = [user_states EXCEPT ![u] = res.sess]
    /\ turn' = Turn("text", u, text, <<>>, sess, res.status, res.out)
    /\ systems_by_name' = IF get_user_step(sess) = AwaitSystemName
                          THEN NameLookupLeaves(systems_by_name, text)
                          ELSE systems_by_name
    /\ UNCHANGED << all_rows, systems_by_article, cartridges_by_article, phase >>

\* ------------------------------------------------------------------------
\* Specifications.

\* Most sends one handler run makes (an answer or a notice, then the menu).
MaxSends == 2

\* The sheets of the dialogue specification: an empty catalog, one system,
\* and two systems that share their name and their cartridge.
DialogueSheets == { <<>>, <<RowA>>, <<RowA, RowB>> }

DialogueLoads == {LoadOf(records) : records \in DialogueSheets} \cup {FetchFailed}

\* The dialogue: every command, token and text, every send fault.
Next ==
    \/ \E ld \in DialogueLoads : Startup(ld)
    \/ \E u \in ActiveUsers, sendFails \in BOOLEAN : Start(u, sendFails)
    \/ \E u \in ActiveUsers, ld \in DialogueLoads, f \in 0..1, errLost \in BOOLEAN :
            Reload(u, ld, f, errLost)
    \/ \E u \in ActiveUsers, data \in Tokens, f \in 0..MaxSends,
          errLost, answerFails \in BOOLEAN : HandleCallback(u, data, answerFails, f, errLost)
    \/ \E u \in ActiveUsers, text \in Texts, f \in 0..MaxSends, errLost \in BOOLEAN :
            HandleText(u, text, f, errLost)

Spec == Init /\ [][Next]_vars

\* A record with a blank cartridge article cell.
RowNoCart == Row(StrCell(<<"2">>), StrCell(<<"A", "b">>),
                 StrCell(<<>>), StrCell(<<"c", "b">>))

\* The sheets of the index specification: those of Sheets and those with
\* rows that have no cartridge.
IndexSheets == {r \in SeqsUpTo(RowPool \cup {RowNoCart}, MaxRows) : UniformKeys(r)}

IndexLoads == {LoadOf(records) : records \in IndexSheets} \cup {FetchFailed}

\* The index: loads of every sheet, at startup and on reload.
NextIndex ==
    \/ \E ld \in IndexLoads : Startup(ld)
    \/ \E u \in ActiveUsers, ld \in IndexLoads, f \in 0..1, errLost \in BOOLEAN :
            Reload(u, ld, f, errLost)

SpecIndex == Init /\ [][NextIndex]_vars

\* The tokens that open the three guided lookups.
LookupTokens == { D_reg_sys_name, D_reg_cart_art, D_reg_cart_name }

\* System names, cartridge articles and cartridge names typed into them.
LookupTexts ==
    { <<"A", "b">>, <<"a">>, <<"z", "z">>, <<"7">>, <<"c", "b">>, <<"k", "i", "t">> }

\* The guided lookups over every sheet: loads, the tokens that open a lookup
\* and the texts typed into it, with a send fault at any point.
NextLookup ==
    \/ \E ld \in Loads : Startup(ld)
    \/ \E u \in ActiveUsers, ld \in Loads : Reload(u, ld, 0, FALSE)
    \/ \E u \in ActiveUsers, data \in LookupTokens, f \in 0..MaxSends :
            HandleCallback(u, data, FALSE, f, FALSE)
    \/ \E u \in ActiveUsers, text \in LookupTexts, f \in 0..MaxSends :
            HandleText(u, text, f, FALSE)

SpecLookup == Init /\ [][NextLookup]_vars

\* The tokens that open the two lookups by article.
ArticleTokens == { D_menu_pro, D_reg_cart_art }

\* Articles typed into them: known and unknown ones, one followed by a
\* second word, and two with a decimal suffix.
ArticleTexts ==
    { <<"1">>, <<"1", " ", "z">>, <<"9">>, <<"7">>, <<"7", ".", "0">>,
      <<"1", ".", "0">> }

\* The lookups by article over every sheet.
NextArticle ==
    \/ \E ld \in Loads : Startup(ld)
    \/ \E u \in ActiveUsers, ld \in Loads : Reload(u, ld, 0, FALSE)
    \/ \E u \in ActiveUsers, data \in ArticleTokens, f \in 0..MaxSends :
            HandleCallback(u, data, FALSE, f, FALSE)
    \/ \E u \in ActiveUsers, text \in ArticleTexts, f \in 0..MaxSends :
            HandleText(u, text, f, FALSE)

SpecArticle == Init /\ [][NextArticle]_vars

\* The rows given to split_kits_and_items and to send_system_info: a single
\* item, two kits by a Latin keyword (one inside a longer word, in mixed
\* case) and a kit by a Cyrillic keyword.
MaxRenderRows == 3

RenderRowPool ==
    { Row(StrCell(<<"1">>), StrCell(<<"A", "b">>), StrCell(<<"7">>),
          StrCell(<<"c", "b">>)),
      Row(StrCell(<<"1">>), StrCell(<<"A", "b">>), StrCell(<<"8">>),
          StrCell(<<"c", "b", " ", "K", "i", "t">>)),
      Row(StrCell(<<"1">>), StrCell(<<"A", "b">>), StrCell(<<"9">>),
          StrCell(<<"r", "e", "S", "e", "t">>)),
      Row(StrCell(<<"1">>), StrCell(<<"A", "b">>), StrCell(<<"6">>),
          StrCell(<<"ru_n", "ru_a", "ru_b", "ru_o", "ru_r", " ", "x">>)) }

RenderRows == SeqsUpTo(RenderRowPool, MaxRenderRows)

\* A call of split_kits_and_items (lines 243-252) on `rows`.
Classify(rows) ==
    /\ turn' = Turn("classify", "", <<>>, rows, NoSession, "ok",
                    << split_kits_and_items(rows).kits,
                       split_kits_and_items(rows).singles >>)
    /\ UNCHANGED << index, user_states, phase >>

\* A call of send_system_info (lines 646-688) for `sys_article` and `rows`.
SendSystemInfo(lang, sys_article, rows) ==
    /\ turn' = Turn("system_info", "", sys_article, rows, NoSession, "ok",
                    << SystemInfoMsg(lang, sys_article, rows) >>)
    /\ UNCHANGED << index, user_states, phase >>

\* Classification and rendering of every row sequence.
NextRender ==
    \/ \E rows \in RenderRows : Classify(rows)
    \/ \E rows \in RenderRows : SendSystemInfo(LANG_RU, <<"1">>, rows)

SpecRender == Init /\ [][NextRender]_vars

\* Two users at once, on one catalog in which the name "Ab" has two systems:
\* the commands, the way into the lookup by name and a name typed into it.
UsersLoads == { LoadOf(<< RowA, RowB >>) }

UsersTokens ==
    { D_lang_prefix \o LANG_EN, D_menu_regular, D_reg_sys_name, D_back_main }

UsersTexts == { <<"A", "b">> }

NextUsers ==
    \/ \E ld \in UsersLoads : Startup(ld)
    \/ \E u \in Users : Start(u, FALSE)
    \/ \E u \in Users, ld \in UsersLoads : Reload(u, ld, 0, FALSE)
    \/ \E u \in Users, data \in UsersTokens, f \in 0..1 :
            HandleCallback(u, data, FALSE, f, FALSE)
    \/ \E u \in Users, text \in UsersTexts, f \in 0..1 :
            HandleText(u, text, f, FALSE)

SpecUsers == Init /\ [][NextUsers]_vars

\* ------------------------------------------------------------------------
\* Vocabulary of the claims.

\* The last turn was a selection event or a free-text event.
DialogueTurn == turn.kind \in {"callback", "text"}

\* The last turn was a free-text event typed in step `step`.
TextTurnIn(step) == turn.kind = "text" /\ turn.pre.step = step

\* A fault occurred in the last turn: a send or the code raised in the try
\* block, or query.answer() raised before it.
TurnFaulted == turn.status \in {"fault", "answer_failed"}

\* The session of the user of the last turn, as the turn left it.
SessionAfter == user_states[turn.user]

ErrorEmitted ==
    /\ turn.out # <<>>
    /\ turn.out[Len(turn.out)].key = "error"

\* The index is the one a complete build of some record sequence makes.
CompleteIndex == \E ld \in Loads : ld.res.ok /\ Idx = [k \in DOMAIN Idx |-> ld.res[k]]

\* ------------------------------------------------------------------------
\* C1. If a fault occurs while a selection event or a free-text event is
\* handled (a failed send at any point included), the generic error message
\* is emitted and the user's session, step and language, is what it was
\* before the event.
\* The code writes the session before it sends (lines 357-358, 364-365,
\* 507-508, ...): a send that fails leaves the new step, or language, behind.
C1_FaultLeavesSessionUnchanged ==
    (DialogueTurn /\ TurnFaulted) => (ErrorEmitted /\ SessionAfter = turn.pre)

\* C2. If a reload fails at any point, the index (the row list and the
\* three maps) is the one that was active before the reload.
\* The code rebinds the four globals before the loop (lines 208-211): a
\* build that raises half way leaves the new rows and the half-filled maps.
C2_FailedReloadKeepsIndex ==
    [][(turn'.kind = "reload" /\ turn'.status # "ok") => index' = index]_vars

\* C3. Every lookup of a dialogue event sees the three maps and the row
\* list of one complete build, the old one or the new one.
\* After a reload that failed half way (C2) the events that follow read the
\* half-built index.
C3_EventsReadCompleteIndex == DialogueTurn => CompleteIndex

\* ------------------------------------------------------------------------
\* C4. After Build(rows), the lookup by system article a returns the
\* subsequence of rows whose system article normalizes to a, in their
\* original order, and the empty sequence when there is none.

\* The last turn was a load that completed: the index is Build(turn.records).
BuildCompleted == turn.kind \in {"startup", "reload"} /\ turn.status = "ok"

\* LookupBySystemArticle: systems_by_article.get(sys_article, []), line 452.
LookupBySystemArticle(a) == DictGet(systems_by_article, a)

\* The system articles looked up.
SysArticles == { <<"1">>, <<"2">>, <<"9">>, <<>>, <<"1", ".", "0">> }

\* The rows at the positions of `positions`, in increasing order.
RowsAt(positions) ==
    LET kept == SelectSeq([i \in 1..Len(all_rows) |-> i], LAMBDA i : i \in positions)
    IN [k \in 1..Len(kept) |-> all_rows[kept[k]]]

\* The positions of the fetched records whose system article normalizes to a.
PositionsOfArticle(a) ==
    { i \in 1..Len(turn.records) :
        /\ ~IsNone(turn.records[i].art)
        /\ SplitDot0(StrOf(turn.records[i].art)) = a }

\* The positions of the records Build keeps: those with a system article and
\* a system name.
KeptPositions ==
    { i \in 1..Len(turn.records) :
        ~IsNone(turn.records[i].art) /\ ~IsNone(turn.records[i].name) }

\* C4 as stated: every row whose system article normalizes to a is returned.
\* A row without a system name is skipped by the build (line 218) and is in
\* no bucket, whatever its article.
C4_LookupReturnsRowsOfArticle ==
    BuildCompleted =>
        \A a \in SysArticles : LookupBySystemArticle(a) = RowsAt(PositionsOfArticle(a))

\* C4 as amended: after a completed Build(rows), the lookup by system article
\* a returns the subsequence of the rows that have a system article and a
\* system name and whose system article normalizes to a, in their original
\* order, and the empty sequence when there is none.
C4_LookupReturnsKeptRowsOfArticle ==
    BuildCompleted =>
        \A a \in SysArticles :
            LookupBySystemArticle(a) = RowsAt(PositionsOfArticle(a) \cap KeptPositions)

\* A completed build after which one article has two rows, one of which
\* arrived with a decimal suffix.
C4_Witness ==
    /\ BuildCompleted
    /\ \E a \in SysArticles :
        /\ Len(LookupBySystemArticle(a)) >= 2
        /\ \E i \in PositionsOfArticle(a) : StrOf(turn.records[i].art) # a

\* ------------------------------------------------------------------------
\* C5, C6. The system-name lookup, seen through the answer of the turn.

\* The input of the last turn, normalized as a name (trimmed, upper-cased).
NormalizedInput == Upper(Strip(turn.input))

\* The last turn was a name typed into the system-name lookup, handled
\* without a fault.
NameLookupTurn == TextTurnIn(AwaitSystemName) /\ turn.status = "ok"

\* The system articles the turn answered with: the article of the system
\* info message, or the articles of the system options of the list sent
\* under the template `listKey`.
AnsweredWith(listKey) ==
    IF \E i \in 1..Len(turn.out) : turn.out[i].key = "system_info"
    THEN LET m == turn.out[CHOOSE i \in 1..Len(turn.out) : turn.out[i].key = "system_info"]
         IN << m.lines[1].art >>
    ELSE IF \E i \in 1..Len(turn.out) : turn.out[i].key = listKey
    THEN LET m == turn.out[CHOOSE i \in 1..Len(turn.out) : turn.out[i].key = listKey]
             sys == SelectSeq(m.opts, LAMBDA o : o.label = "system")
         IN [i \in 1..Len(sys) |-> sys[i].art]
    ELSE <<>>

AnsweredArticles == AnsweredWith("choose_system")

\* The positions, in systems_by_name, of the names that contain the input.
ContainingNames ==
    { i \in 1..Len(systems_by_name) : IsSubstring(NormalizedInput, systems_by_name[i].k) }

\* C5. If the normalized input equals an indexed normalized system name, the
\* result of the name lookup is the article list of that name: the articles
\* of other names that contain the input are not included.
C5_ExactNameMatchOnly ==
    (NameLookupTurn /\ DictHas(systems_by_name, NormalizedInput)) =>
        AnsweredArticles = DictGet(systems_by_name, NormalizedInput)

\* A name lookup with an exact match while another name contains the input
\* and has an article the exact name does not have.
C5_Witness ==
    /\ NameLookupTurn
    /\ DictHas(systems_by_name, NormalizedInput)
    /\ \E i \in ContainingNames :
        /\ systems_by_name[i].k # NormalizedInput
        /\ \E j \in 1..Len(systems_by_name[i].v) :
              ~InList(systems_by_name[i].v[j], DictGet(systems_by_name, NormalizedInput))

\* Where article x is first seen among the names that contain the input:
\* the smallest (name position, position in the name's list), as one number.
FirstSeen(x) ==
    LET places == { 100 * i + j : i \in ContainingNames, j \in 1..MaxRows + 1 }
        seen == { n \in places :
                    LET i == n \div 100
                        j == n % 100
                    IN j <= Len(systems_by_name[i].v) /\ systems_by_name[i].v[j] = x }
    IN CHOOSE n \in seen : \A m \in seen : n <= m

\* C6. If no indexed name equals the normalized input, the result is the
\* union of the article lists of the names that contain the input, each
\* article once, in first-seen order.
C6_SubstringUnionFirstSeen ==
    (NameLookupTurn /\ ~DictHas(systems_by_name, NormalizedInput)) =>
        LET R == AnsweredArticles IN
        /\ { R[k] : k \in 1..Len(R) } =
              UNION { { systems_by_name[i].v[j] : j \in 1..Len(systems_by_name[i].v) } :
                        i \in ContainingNames }
        /\ \A k, l \in 1..Len(R) : k < l => R[k] # R[l]
        /\ \A k, l \in 1..Len(R) : k < l => FirstSeen(R[k]) < FirstSeen(R[l])

\* A substring lookup over two names that answers with two articles.
C6_Witness ==
    /\ NameLookupTurn
    /\ ~DictHas(systems_by_name, NormalizedInput)
    /\ Cardinality(ContainingNames) >= 2
    /\ Len(AnsweredArticles) >= 2

\* ------------------------------------------------------------------------
\* C7 - C10. The answers of the lookups by name and by cartridge.

\* The language the last turn was handled in.
TurnLang == get_user_lang(turn.pre)

\* The system options of a list message, without its back button.
SystemOptions(m) == SelectSeq(m.opts, LAMBDA o : o.label = "system")

\* Some message of the turn was sent under the template `key`.
Emitted(key) == \E i \in 1..Len(turn.out) : turn.out[i].key = key

\* C7. A name typed in AwaitSystemName whose lookup yields two or more
\* system articles is answered with one disambiguation list that has one
\* option per matched article, in the order of the lookup, and the session
\* moves to ChooseSystemForName; no system info is sent in that turn.
C7_SeveralSystemsAreListed ==
    LET candidates == NameCandidates(systems_by_name, turn.input) IN
    (NameLookupTurn /\ Len(candidates) >= 2) =>
        /\ Len(turn.out) = 1
        /\ turn.out[1].key = "choose_system"
        /\ turn.out[1].lang = TurnLang
        /\ LET options == SystemOptions(turn.out[1]) IN
           /\ Len(options) = Len(candidates)
           /\ Len(turn.out[1].opts) = Len(candidates) + 1
           /\ \A i \in 1..Len(options) :
                /\ options[i].art = candidates[i]
                /\ options[i].data = D_sys_prefix \o candidates[i]
        /\ ~Emitted("system_info")
        /\ SessionAfter.step = ChooseSystemForName

\* A name lookup with two candidates that come from two different names.
C7_Witness ==
    /\ NameLookupTurn
    /\ Len(NameCandidates(systems_by_name, turn.input)) >= 2
    /\ Cardinality(ContainingNames) >= 2
    /\ SessionAfter.step = ChooseSystemForName

\* The last turn was a cartridge article typed in AwaitCartridgeArticle,
\* handled without a fault.
CartridgeArticleTurn == TextTurnIn(AwaitCartridgeArticle) /\ turn.status = "ok"

\* The rows of the cartridge article typed in the last turn.
CartridgeRows == DictGet(cartridges_by_article, FirstToken(turn.input))

\* The system article of a row, as lines 526 and 587 read it.
SystemArticleOf(row) == SplitDot0(StrOf(row.art))

\* The system articles of the rows of the cartridge; a row with a blank
\* system article carries none.
SystemsOfCartridge ==
    { SystemArticleOf(CartridgeRows[i]) : i \in 1..Len(CartridgeRows) } \ { <<>> }

\* The first row of the cartridge that carries system article x.
FirstRowOf(x) ==
    CHOOSE i \in 1..Len(CartridgeRows) :
        /\ SystemArticleOf(CartridgeRows[i]) = x
        /\ \A j \in 1..(i - 1) : SystemArticleOf(CartridgeRows[j]) # x

\* C8. A cartridge article typed in AwaitCartridgeArticle that has rows is
\* answered from the distinct system articles of those rows, each once and
\* in first-seen order: one system is rendered directly and the session goes
\* to MainMenu; several are offered in a disambiguation list, one option per
\* system whose token carries the system article and the cartridge article,
\* and the session goes to ChooseSystemForCartridge.
C8_CartridgeArticleAnswer ==
    (CartridgeArticleTurn /\ CartridgeRows # <<>> /\ SystemsOfCartridge # {}) =>
        LET answered == AnsweredWith("choose_system_for_cart") IN
        /\ { answered[k] : k \in 1..Len(answered) } = SystemsOfCartridge
        /\ \A k, l \in 1..Len(answered) :
              k < l => FirstRowOf(answered[k]) < FirstRowOf(answered[l])
        /\ Cardinality(SystemsOfCartridge) = 1 =>
              /\ Len(turn.out) = 2
              /\ turn.out[1].key = "system_info"
              /\ turn.out[1].lang = TurnLang
              /\ turn.out[2] = MainMenuMsg(TurnLang)
              /\ SessionAfter.step = MainMenu
        /\ Cardinality(SystemsOfCartridge) >= 2 =>
              /\ Len(turn.out) = 1
              /\ turn.out[1].key = "choose_system_for_cart"
              /\ turn.out[1].lang = TurnLang
              /\ Len(turn.out[1].opts) = Len(answered) + 1
              /\ LET options == SystemOptions(turn.out[1]) IN
                 \A i \in 1..Len(options) :
                    options[i].data =
                        D_sysfromcart_prefix \o options[i].art \o <<"_">>
                            \o FirstToken(turn.input)
              /\ SessionAfter.step = ChooseSystemForCartridge

\* A cartridge article used by two systems, typed in AwaitCartridgeArticle.
C8_Witness ==
    /\ CartridgeArticleTurn
    /\ Cardinality(SystemsOfCartridge) >= 2
    /\ SessionAfter.step = ChooseSystemForCartridge

\* The last turn was a cartridge name typed in AwaitCartridgeName, handled
\* without a fault.
CartridgeNameTurn == TextTurnIn(AwaitCartridgeName) /\ turn.status = "ok"

\* The cartridge articles whose name contains the name typed in the last turn.
MatchedCartridges == MatchedCartArticles(all_rows, turn.input)

\* C9. A cartridge name typed in AwaitCartridgeName that matches two or more
\* distinct cartridge articles is answered with "no cartridges found" and
\* the main menu, with no disambiguation list, and the session goes to
\* MainMenu.
C9_SeveralCartridgesAreNotFound ==
    (CartridgeNameTurn /\ Cardinality(MatchedCartridges) >= 2) =>
        /\ turn.out = << Msg("no_cartridges_found", TurnLang, <<>>),
                         MainMenuMsg(TurnLang) >>
        /\ ~Emitted("choose_system_for_cart")
        /\ ~Emitted("choose_system")
        /\ SessionAfter.step = MainMenu

\* A cartridge name that matches two cartridge articles.
C9_Witness ==
    /\ CartridgeNameTurn
    /\ Cardinality(MatchedCartridges) >= 2
    /\ SessionAfter.step = MainMenu

\* What a text `c` typed in AwaitCartridgeArticle is answered with, on the
\* index and in the language of the last turn.
AsCartridgeArticle(c) ==
    RunHandler(CartridgeArticlePlan(Idx, TurnLang, c),
               set_user_step(turn.pre, AwaitCartridgeArticle), 0, FALSE)

\* C10. When the name typed in AwaitCartridgeName matches exactly one
\* cartridge article c, the messages and the next step are those of c typed
\* in AwaitCartridgeArticle, whatever the index holds.
C10_SingleNameMatchIsArticleLookup ==
    (CartridgeNameTurn /\ Cardinality(MatchedCartridges) = 1) =>
        LET c == CHOOSE x \in MatchedCartridges : TRUE IN
        /\ turn.out = AsCartridgeArticle(c).out
        /\ SessionAfter.step = AsCartridgeArticle(c).sess.step

\* ------------------------------------------------------------------------
\* C11, C14. The lookups by article.

\* The last turn was an article typed in AwaitProArticle, handled without a
\* fault.
ProArticleTurn == TextTurnIn(AwaitProArticle) /\ turn.status = "ok"

\* C11. A text typed in AwaitProArticle is looked up by its first
\* whitespace-delimited token as a system article: when the index does not
\* have it, "no systems found" and the main menu are sent; when it has, the
\* system info of that article and the main menu are sent; either way the
\* session goes to MainMenu.
C11_ProArticleAnswer ==
    ProArticleTurn =>
        LET a == FirstToken(turn.input) IN
        /\ Len(turn.out) = 2
        /\ turn.out[1] = IF DictHas(systems_by_article, a)
                         THEN SystemInfoMsg(TurnLang, a, LookupBySystemArticle(a))
                         ELSE Msg("no_systems_found", TurnLang, <<>>)
        /\ DictHas(systems_by_article, a) =>
              /\ turn.out[1].key = "system_info"
              /\ turn.out[1].lines[1].art = a
        /\ turn.out[2] = MainMenuMsg(TurnLang)
        /\ SessionAfter.step = MainMenu

\* An article of the index typed with a second word after it.
C11_Witness ==
    /\ ProArticleTurn
    /\ FirstToken(turn.input) # turn.input
    /\ DictHas(systems_by_article, FirstToken(turn.input))
    /\ Emitted("system_info")

\* C14. The lookup by cartridge article matches on the normalized input: an
\* article typed with a decimal suffix is answered as the article without
\* it, and an unknown article has no rows.
C14_CartridgeLookupNormalizesInput ==
    CartridgeArticleTurn =>
        LET typed == FirstToken(turn.input) IN
        /\ turn.out = AsCartridgeArticle(SplitDot0(typed)).out
        /\ ~DictHas(cartridges_by_article, SplitDot0(typed)) =>
              Emitted("no_cartridges_found")

\* ------------------------------------------------------------------------
\* C12, C13. Language selection and the events that only show the menu.

\* The last turn was the selection of language `l`, and the handler ran
\* (query.answer() did not raise).
LanguageSelected(l) ==
    /\ turn.kind = "callback"
    /\ turn.input = D_lang_prefix \o l
    /\ turn.status \in {"ok", "fault"}

\* C12. The selection of a language, in any session state, sets the
\* language of the session to it and the step to MainMenu; the main menu of
\* that turn is in the selected language, and so is the main menu of every
\* later turn: a main menu is always in the language of the session.
C12_LanguageSelection ==
    /\ \A l \in ValidLangs :
          LanguageSelected(l) =>
              /\ SessionAfter.lang = l
              /\ SessionAfter.step = MainMenu
              /\ turn.status = "ok" => turn.out = << MainMenuMsg(l) >>
    /\ turn.kind \in {"callback", "text"} =>
          \A i \in 1..Len(turn.out) :
              turn.out[i].key = "main_menu" =>
                  turn.out[i].lang = get_user_lang(SessionAfter)

\* A language selected in the middle of a lookup, by a session that had
\* another language or none.
C12_Witness ==
    \E l \in ValidLangs :
        /\ LanguageSelected(l)
        /\ turn.status = "ok"
        /\ turn.pre.step = AwaitSystemName
        /\ get_user_lang(turn.pre) # l
        /\ turn.out = << MainMenuMsg(l) >>

\* The token matches no branch of handle_callback.
Unrecognized(data) ==
    /\ ~StartsWith(data, D_lang_prefix)
    /\ ~StartsWith(data, D_sys_prefix)
    /\ ~StartsWith(data, D_sysfromcart_prefix)
    /\ data \notin { D_menu_regular, D_menu_pro, D_menu_lang, D_back_main,
                     D_reg_sys_name, D_reg_cart_art, D_reg_cart_name }

\* The states in which no input is awaited.
RestingSteps == { MainMenu, RegularMenu, ChooseLanguage }

\* The last turn is one of those C13 speaks of, handled without a fault.
MenuOnlyTurn ==
    /\ turn.status = "ok"
    /\ \/ turn.kind = "callback" /\ Unrecognized(turn.input)
       \/ turn.kind = "text" /\ turn.pre.step \in RestingSteps

\* C13. An unrecognized selection token, and a text received in a resting
\* state, make the main menu be sent again, and no error message.
C13_MenuShownAgain ==
    MenuOnlyTurn =>
        /\ Emitted("main_menu")
        /\ turn.out[Len(turn.out)] = MainMenuMsg(TurnLang)
        /\ ~Emitted("error")

\* ------------------------------------------------------------------------
\* C15, C16. Classification and the system info message.

\* The elements of `seq` at the positions of `positions`, in order.
Pick(seq, positions) ==
    LET kept == SelectSeq([i \in 1..Len(seq) |-> i], LAMBDA i : i \in positions)
    IN [k \in 1..Len(kept) |-> seq[kept[k]]]

\* The positions of the rows whose lower-cased cartridge name contains one
\* of the bundle keywords.
KitPositions(rows) ==
    { i \in 1..Len(rows) :
        \E w \in KitWords : IsSubstring(w, Lower(StrOf(rows[i].cname))) }

\* C15. Classify is an order-preserving partition: the kits are the rows
\* whose lower-cased cartridge name contains a bundle keyword, the singles
\* are all the other rows, and both keep the order of the input.
C15_ClassifyIsOrderedPartition ==
    turn.kind = "classify" =>
        LET rows == turn.records
            K == KitPositions(rows)
        IN /\ turn.out[1] = Pick(rows, K)
           /\ turn.out[2] = Pick(rows, (1..Len(rows)) \ K)
           /\ Len(turn.out[1]) + Len(turn.out[2]) = Len(rows)

\* A classification of three rows with a single before a kit and both
\* parts non-empty.
C15_Witness ==
    /\ turn.kind = "classify"
    /\ Len(turn.records) = 3
    /\ 1 \notin KitPositions(turn.records)
    /\ 3 \in KitPositions(turn.records)
    /\ turn.out[1] # <<>> /\ turn.out[2] # <<>>

\* The lines of the message without the blank ones.
TextLines(m) == SelectSeq(m.lines, LAMBDA l : l.t # "blank")

\* n lines of kind "item_line".
ItemKinds(n) == [i \in 1..n |-> "item_line"]

\* C16. The system info message is: the header; when the rows have a kit,
\* the kits section and then the singles section only when there is a
\* single; when they have none, the "no kits" notice and one item line for
\* every row.
C16_SystemInfoComposition ==
    turn.kind = "system_info" =>
        LET rows == turn.records
            K == KitPositions(rows)
            kits == Pick(rows, K)
            singles == Pick(rows, (1..Len(rows)) \ K)
            L == TextLines(turn.out[1])
            items == SelectSeq(L, LAMBDA l : l.t = "item_line")
        IN /\ L[1].t = "system_header"
           /\ L[1].art = turn.input
           /\ [i \in 1..Len(L) |-> L[i].t] =
                 << "system_header" >> \o
                 (IF K # {}
                  THEN << "kits_header" >> \o ItemKinds(Len(kits)) \o
                       (IF singles # <<>>
                        THEN << "items_header" >> \o ItemKinds(Len(singles))
                        ELSE <<>>)
                  ELSE << "no_kits" >> \o ItemKinds(Len(rows)))
           /\ items = ItemLines(kits \o singles)

\* A system info message with kits only: no singles section.
C16_Witness ==
    /\ turn.kind = "system_info"
    /\ Len(turn.records) >= 2
    /\ KitPositions(turn.records) = 1..Len(turn.records)
    /\ \E i \in 1..Len(turn.out[1].lines) : turn.out[1].lines[i].t = "kits_header"

\* ------------------------------------------------------------------------
\* C17. Sessions of other users.

\* C17. An event of user u (a selection, a text or a command) changes the
\* session of no other user: the step and the language of every other user
\* stay as they were.
C17_OtherSessionsUnchanged ==
    [][\A v \in Users : v # turn'.user => user_states'[v] = user_states[v]]_vars

\* A turn of one user that changed their session while the other user is in
\* the middle of a lookup, in a language they selected.
C17_Witness ==
    \E v \in Users :
        /\ v # turn.user
        /\ turn.kind \in {"start", "callback", "text"}
        /\ SessionAfter # turn.pre
        /\ user_states[v].step = AwaitSystemName
        /\ user_states[v].lang = LANG_EN

\* ------------------------------------------------------------------------
\* C18. The buckets of the two row indexes after a build.

\* The positions of the fetched records that have a non-empty cartridge
\* article (line 230: not None and not "").
CartridgePositions ==
    { i \in 1..Len(turn.records) :
        ~IsNone(turn.records[i].cart) /\ StrOf(turn.records[i].cart) # <<>> }

\* The positions of the fetched records that have a system article.
SystemPositions == { i \in 1..Len(turn.records) : ~IsNone(turn.records[i].art) }

\* The normalized cartridge article of the record at each position.
CartridgeKeyAt ==
    [i \in 1..Len(turn.records) |-> SplitDot0(StrOf(turn.records[i].cart))]

\* The normalized system article of the record at each position.
SystemKeyAt ==
    [i \in 1..Len(turn.records) |-> SplitDot0(StrOf(turn.records[i].art))]

\* The rows at `positions` are each in exactly one bucket of the dict `d`,
\* the one of their key, and the buckets hold nothing else: the keys of d
\* are distinct, every position's key is one of them, and the bucket of a
\* key is the rows of the positions with that key.
InExactlyOneBucket(d, positions, KeyAt) ==
    /\ \A m, n \in 1..Len(d) : m # n => d[m].k # d[n].k
    /\ \A i \in positions : DictHas(d, KeyAt[i])
    /\ \A m \in 1..Len(d) :
          d[m].v = RowsAt({ i \in positions : KeyAt[i] = d[m].k })

\* C18 as stated: after Build, every row with a non-empty cartridge article
\* is in exactly one bucket of the cartridge index, the one of its
\* normalized cartridge article, and every row with a system article is in
\* exactly one bucket of the system-article index. A row without a system
\* name is skipped (line 218) and is in no bucket.
C18_RowsInExactlyOneBucket ==
    BuildCompleted =>
        /\ InExactlyOneBucket(cartridges_by_article, CartridgePositions, CartridgeKeyAt)
        /\ InExactlyOneBucket(systems_by_article, SystemPositions, SystemKeyAt)

\* C18 as amended: after a completed Build, every row that has a system
\* article and a system name and a non-empty cartridge article is in
\* exactly one bucket of the cartridge index, the one of its normalized
\* cartridge article, and every row that has a system article and a system
\* name is in exactly one bucket of the system-article index, the one of
\* its normalized system article.
C18_KeptRowsInExactlyOneBucket ==
    BuildCompleted =>
        /\ InExactlyOneBucket(cartridges_by_article,
                              CartridgePositions \cap KeptPositions, CartridgeKeyAt)
        /\ InExactlyOneBucket(systems_by_article,
                              SystemPositions \cap KeptPositions, SystemKeyAt)

\* A completed build of two rows, one in a cartridge bucket under an
\* article that arrived with a decimal suffix, the other with no cartridge.
C18_Witness ==
    /\ BuildCompleted
    /\ Len(turn.records) = 2
    /\ Cardinality(CartridgePositions) = 1
    /\ \E i \in CartridgePositions : StrOf(turn.records[i].cart) # CartridgeKeyAt[i]
    /\ Len(cartridges_by_article) = 1

\* ------------------------------------------------------------------------
\* C19. Skipped rows.

\* The build skipped the row: it has no system article or no system name.
Skipped(row) == IsNone(row.art) \/ IsNone(row.name)

\* The rows of every bucket of the dict d.
BucketRows(d) == UNION { { d[m].v[j] : j \in 1..Len(d[m].v) } : m \in 1..Len(d) }

\* The index with the skipped rows taken out of the row list.
IndexWithoutSkipped ==
    [Idx EXCEPT !.all_rows = SelectSeq(all_rows, LAMBDA r : ~Skipped(r))]

\* What the text of the last turn is answered with when the skipped rows
\* are not there.
AnswerWithoutSkipped ==
    RunHandler(TextPlan(IndexWithoutSkipped, TurnLang, turn.pre.step, turn.input),
               turn.pre, 0, FALSE)

\* C19. Build skips every row whose system article or system name is
\* absent: such a row is in no bucket of the index maps, and it is never the
\* source of a dialogue answer: every text is answered as it would be
\* without the skipped rows.
C19_SkippedRowsHaveNoEffect ==
    /\ \A r \in BucketRows(systems_by_article) \cup BucketRows(cartridges_by_article) :
          ~Skipped(r)
    /\ (turn.kind = "text" /\ turn.status = "ok") =>
          /\ turn.out = AnswerWithoutSkipped.out
          /\ SessionAfter = AnswerWithoutSkipped.sess

\* ------------------------------------------------------------------------
\* C20. The graph of the steps.

\* The steps in which an input is awaited.
AwaitSteps ==
    { AwaitProArticle, AwaitSystemName, AwaitCartridgeArticle, AwaitCartridgeName }

\* The steps from which step `to` may be entered.
EnteredFrom(to) ==
    IF to \in { RegularMenu, AwaitProArticle } THEN { MainMenu }
    ELSE IF to \in { AwaitSystemName, AwaitCartridgeArticle, AwaitCartridgeName }
    THEN { RegularMenu }
    ELSE IF to \in { ChooseSystemForName, ChooseSystemForCartridge } THEN AwaitSteps
    ELSE { NoStep, ChooseLanguage, MainMenu, RegularMenu,
           ChooseSystemForName, ChooseSystemForCartridge } \cup AwaitSteps

\* C20. The step of a session changes only along the graph: RegularMenu
\* and AwaitProArticle are entered only from MainMenu; AwaitSystemName,
\* AwaitCartridgeArticle and AwaitCartridgeName only from RegularMenu;
\* ChooseSystemForName and ChooseSystemForCartridge only from an Await step.
C20_StepsFollowGraph ==
    [][\A u \in Users :
          user_states'[u].step # user_states[u].step =>
              user_states[u].step \in EnteredFrom(user_states'[u].step)]_vars

\* ------------------------------------------------------------------------
\* C21. The way back to MainMenu.

\* What the "back to menu" button does to the session of user u now.
BackPressed(u) ==
    RunHandler(CallbackPlan(Idx, get_user_lang(user_states[u]), D_back_main),
               user_states[u], 0, FALSE)

\* The turn delivered an answer or a not-found message.
AnswerDelivered ==
    \/ Emitted("system_info")
    \/ Emitted("no_systems_found")
    \/ Emitted("no_cartridges_found")

\* C21. MainMenu is reachable from every reachable session state: whatever
\* the step, the "back to menu" selection takes the session to MainMenu and
\* shows the menu, so no step is a dead end; and every turn that delivers an
\* answer (a system info message) or a not-found message ends with the
\* session in MainMenu.
C21_MainMenuReachable ==
    /\ phase = "serving" =>
          \A u \in Users :
              /\ BackPressed(u).sess.step = MainMenu
              /\ BackPressed(u).out = << MainMenuMsg(get_user_lang(user_states[u])) >>
    /\ (DialogueTurn /\ AnswerDelivered) => SessionAfter.step = MainMenu

\* An answer delivered to a selection made in ChooseSystemForName, where the
\* send of the menu that follows it failed.
C21_Witness ==
    /\ turn.kind = "callback"
    /\ turn.pre.step = ChooseSystemForName
    /\ Emitted("system_info")
    /\ turn.status = "fault"
    /\ SessionAfter.step = MainMenu

\* ------------------------------------------------------------------------
\* C25. The start command.

\* C25. The start command, in any session state, sets the step to
\* ChooseLanguage and the language to the default language, also when the
\* user had selected another language.
C25_StartResetsSession ==
    turn.kind = "start" =>
        /\ SessionAfter.step = ChooseLanguage
        /\ SessionAfter.lang = DEFAULT_LANG
        /\ get_user_lang(SessionAfter) = LANG_RU

\* The start command in the middle of a lookup, by a user who had selected
\* another language.
C25_Witness ==
    /\ turn.kind = "start"
    /\ turn.pre.step = AwaitSystemName
    /\ turn.pre.lang = LANG_EN
    /\ SessionAfter.lang = DEFAULT_LANG

\* ------------------------------------------------------------------------
\* C22, C24. Disambiguation lists and system info messages.

\* The disambiguation lists of the last turn.
ListsEmitted ==
    { i \in 1..Len(turn.out) :
        turn.out[i].key \in {"choose_system", "choose_system_for_cart"} }

\* C22. A disambiguation list is sent, and the session moved to
\* ChooseSystemForName or ChooseSystemForCartridge, only when the list has
\* at least two system options: no turn sends a list with no or one system
\* option, and a turn that ends in one of the two steps sent such a list.
C22_ListsHaveTwoOptions ==
    (DialogueTurn /\ turn.status = "ok") =>
        /\ \A i \in ListsEmitted : Len(SystemOptions(turn.out[i])) >= 2
        /\ (/\ SessionAfter.step \in {ChooseSystemForName, ChooseSystemForCartridge}
            /\ SessionAfter.step # turn.pre.step) => ListsEmitted # {}

\* C24. Whenever a system info message is sent, the system article it is
\* about has at least one row in the index of that moment, also after a
\* reload and for a system-selection token received in any state.
C24_SystemInfoHasRows ==
    DialogueTurn =>
        \A i \in 1..Len(turn.out) :
            turn.out[i].key = "system_info" =>
                LookupBySystemArticle(turn.out[i].lines[1].art) # <<>>

\* ------------------------------------------------------------------------
\* C23. The index under dialogue events.

\* C23. Handling a selection event or a free-text event never changes the
\* index: the three maps and the row list are after the event what they
\* were before it; the substring fallback of the name lookup adds no
\* article to a stored name bucket and creates no key.
C23_EventsLeaveIndexUnchanged ==
    [][turn'.kind \in {"callback", "text"} => index' = index]_vars

\* A name lookup answered by the substring fallback with articles of two
\* stored names.
C23_Witness ==
    /\ NameLookupTurn
    /\ ~DictHas(systems_by_name, NormalizedInput)
    /\ Cardinality(ContainingNames) >= 2
    /\ AnsweredArticles # <<>>

=============================================================================
